---- MODULE Spec2Model ----
(***************************************************************************)
(* Model of generate.py of stroke-input-data: the stroke sequence regex    *)
(* expander, the ranking scan, the catalogue aggregation and the two       *)
(* output tables.                                                          *)
(*                                                                         *)
(* A character is its Unicode code point and a Python str is a sequence of *)
(* code points, so that str comparison is the lexicographic order on       *)
(* sequences of numbers, exactly as in Python.                             *)
(***************************************************************************)
EXTENDS Integers, Sequences, FiniteSets, TLC

VARIABLES
  pc,                                   \* position in __main__
  ranking_lines,                        \* get_lines('ranking.txt')
  catalogue_lines,                      \* get_lines('codepoint-character-sequence.txt')
  line_number,                          \* number of ranking lines scanned
  sorting_rank_from_character,          \* dict: character -> rank
  infinite_sorting_rank,
  catalogue_index,                      \* number of catalogue lines consumed
  exact_characters_data_from_sequence,  \* dict, as its entries in insertion order
  ignored_lines_file,                   \* lines written to .ignored-lines.txt
  sorted_sequences,
  exact_file,                           \* sequence-exact-characters.txt
  prefix_file,                          \* sequence-prefix-characters.txt
  sequence_regex,                       \* argument of to_sequence_set
  back_referenced_sequence_regex,
  group_alternatives_set_list,
  sequence_set,
  characters_data,                      \* receiver of CharactersData.to_string
  max_candidate_count,
  characters_data_string

vars == << pc, ranking_lines, catalogue_lines, line_number,
           sorting_rank_from_character, infinite_sorting_rank,
           catalogue_index, exact_characters_data_from_sequence,
           ignored_lines_file, sorted_sequences, exact_file, prefix_file,
           sequence_regex, back_referenced_sequence_regex,
           group_alternatives_set_list, sequence_set,
           characters_data, max_candidate_count, characters_data_string >>

mainVars == << ranking_lines, catalogue_lines, line_number,
               sorting_rank_from_character, infinite_sorting_rank,
               catalogue_index, exact_characters_data_from_sequence,
               ignored_lines_file, sorted_sequences, exact_file, prefix_file >>

expandVars == << sequence_regex, back_referenced_sequence_regex,
                 group_alternatives_set_list, sequence_set >>

stringVars == << characters_data, max_candidate_count, characters_data_string >>

----------------------------------------------------------------------------
(* Bounds of the checked inputs.                                           *)

MaxTokens == 3          \* pieces a checked stroke sequence regex is built of
MaxRankingLines == 3    \* lines of a checked ranking source
MaxCatalogueLines == 2  \* lines of a checked catalogue
MaxCandidateCount == 4  \* largest max_candidate_count passed to to_string

----------------------------------------------------------------------------
(* Code points.                                                            *)

TAB == 9
SPACE == 32
HASH == 35
LPAREN == 40
RPAREN == 41
ASTERISK == 42
PLUS == 43
COMMA == 44
DIGIT_0 == 48
BACKSLASH == 92
PIPE == 124
LETTER_U == 85
MAX_CHARACTER == 1114111

Range(f) == { f[i] : i \in DOMAIN f }

Max(a, b) == IF a >= b THEN a ELSE b

Min(a, b) == IF a <= b THEN a ELSE b

\* s[from:] of Python, with from counted from 1
Drop(s, from) == SubSeq(s, from, Len(s))

\* Python's s < t on str: lexicographic on code points
RECURSIVE StrLess(_, _)
StrLess(s, t) ==
  IF t = << >> THEN FALSE
  ELSE IF s = << >> THEN TRUE
  ELSE IF Head(s) # Head(t) THEN Head(s) < Head(t)
  ELSE StrLess(Tail(s), Tail(t))

\* str(n) for a natural number n
RECURSIVE Decimal(_)
Decimal(n) ==
  IF n < 10 THEN << DIGIT_0 + n >>
  ELSE Decimal(n \div 10) \o << DIGIT_0 + (n % 10) >>

----------------------------------------------------------------------------
(* The stroke sequence regex expander.                                     *)

\* [1-5|]
IsAlternativesChar(c) == c \in 49..53 \/ c = PIPE

\* where the greedy [1-5|]* that starts at i stops
RECURSIVE AlternativesEnd(_, _)
AlternativesEnd(s, i) ==
  IF i <= Len(s) /\ IsAlternativesChar(s[i])
  THEN AlternativesEnd(s, i + 1)
  ELSE i

\* CAPTURE_GROUP_REGEX matched at i: the index of its closing parenthesis,
\* or 0 when there is no match at i
CAPTURE_GROUP_REGEX(s, i) ==
  IF s[i] # LPAREN THEN 0
  ELSE LET j == AlternativesEnd(s, i + 1)
       IN  IF j <= Len(s) /\ s[j] = RPAREN THEN j ELSE 0

\* BACK_REFERENCE_REGEX matched at i
BACK_REFERENCE_REGEX(s, i) ==
  s[i] = BACKSLASH /\ i + 1 <= Len(s) /\ s[i + 1] \in 49..57

\* str.split('|'), as the list of pieces
RECURSIVE Split(_)
Split(s) ==
  IF \E k \in 1..Len(s) : s[k] = PIPE
  THEN LET k == CHOOSE k \in 1..Len(s) :
                  s[k] = PIPE /\ \A j \in 1..(k - 1) : s[j] # PIPE
       IN  << SubSeq(s, 1, k - 1) >> \o Split(Drop(s, k + 1))
  ELSE << s >>

\* replace_capture_group: the back reference returned and the list after
\* the append
replace_capture_group(group_alternatives_string, list) ==
  LET group_alternatives_set == Range(Split(group_alternatives_string))
      appended == Append(list, group_alternatives_set)
      group_index == Len(appended)
  IN  [ back_reference |-> << BACKSLASH >> \o Decimal(group_index),
        list |-> appended ]

\* re.sub(CAPTURE_GROUP_REGEX, replace_capture_group, s) from index i on
RECURSIVE SubCaptureGroups(_, _, _)
SubCaptureGroups(s, i, list) ==
  IF i > Len(s) THEN [ string |-> << >>, list |-> list ]
  ELSE LET close == CAPTURE_GROUP_REGEX(s, i) IN
    IF close # 0
    THEN LET r == replace_capture_group(SubSeq(s, i + 1, close - 1), list)
             rest == SubCaptureGroups(s, close + 1, r.list)
         IN  [ string |-> r.back_reference \o rest.string, list |-> rest.list ]
    ELSE LET rest == SubCaptureGroups(s, i + 1, list)
         IN  [ string |-> << s[i] >> \o rest.string, list |-> rest.list ]

\* itertools.product(*list), as the set of its tuples
RECURSIVE Product(_)
Product(list) ==
  IF list = << >> THEN { << >> }
  ELSE { << a >> \o t : a \in Head(list), t \in Product(Tail(list)) }

\* replace_back_reference that takes the first alternative whatever the index
replace_back_reference_first(group_index_char, alternatives_combination) ==
  IF 0 < Len(alternatives_combination)
  THEN [ error |-> FALSE, alternative |-> alternatives_combination[1] ]
  ELSE [ error |-> TRUE, alternative |-> << >> ]

\* replace_back_reference that gives nothing for a missing group
replace_back_reference_lenient(group_index_char, alternatives_combination) ==
  LET group_index == group_index_char - DIGIT_0
  IN  [ error |-> FALSE,
        alternative |-> IF group_index - 1 < Len(alternatives_combination)
                        THEN alternatives_combination[group_index]
                        ELSE << >> ]

\* replace_back_reference: IndexError when the tuple is too short
replace_back_reference(group_index_char, alternatives_combination) ==
  LET group_index == group_index_char - DIGIT_0
  IN  IF group_index - 1 < Len(alternatives_combination)
      THEN [ error |-> FALSE,
             alternative |-> alternatives_combination[group_index] ]
      ELSE [ error |-> TRUE, alternative |-> << >> ]

\* re.sub(BACK_REFERENCE_REGEX, replace_back_reference, s) from index i on
RECURSIVE SubBackReferences(_, _, _)
SubBackReferences(s, i, alternatives_combination) ==
  IF i > Len(s) THEN [ error |-> FALSE, string |-> << >> ]
  ELSE IF BACK_REFERENCE_REGEX(s, i)
  THEN LET r == replace_back_reference(s[i + 1], alternatives_combination)
           rest == SubBackReferences(s, i + 2, alternatives_combination)
       IN  [ error |-> r.error \/ rest.error,
             string |-> r.alternative \o rest.string ]
  ELSE LET rest == SubBackReferences(s, i + 1, alternatives_combination)
       IN  [ error |-> rest.error, string |-> << s[i] >> \o rest.string ]

\* the loop of to_sequence_set over the combinations
ExpandCombinations(regex, list) ==
  LET results == { SubBackReferences(regex, 1, c) : c \in Product(list) }
  IN  [ error |-> \E r \in results : r.error,
        set |-> { r.string : r \in results } ]

to_sequence_set(regex) ==
  LET grouped == SubCaptureGroups(regex, 1, << >>)
  IN  ExpandCombinations(grouped.string, grouped.list)

----------------------------------------------------------------------------
(* Sorting and CharactersData.                                             *)

\* the orders in which a set may be iterated
Iterations(set) ==
  { order \in [ 1..Cardinality(set) -> set ] :
      \A i, j \in DOMAIN order : order[i] = order[j] => i = j }

\* list.insert that keeps a sorted list of [key, value] sorted and puts the
\* item after the items whose key is not greater (sorted is stable)
InsertSorted(list, item) ==
  LET before == Cardinality({ i \in DOMAIN list :
                                ~StrLess(item.key, list[i].key) })
  IN  SubSeq(list, 1, before) \o << item >> \o Drop(list, before + 1)

\* sorted(list, key=...) on a list of [key, value]: the values in key order.
\* A key is a str or a tuple of numbers; both compare lexicographically.
RECURSIVE SortedItems(_)
SortedItems(list) ==
  IF list = << >> THEN << >>
  ELSE InsertSorted(SortedItems(SubSeq(list, 1, Len(list) - 1)),
                    list[Len(list)])

Values(list) == [ i \in DOMAIN list |-> list[i].value ]

\* a sorting function that gives the rank alone
character_sorting_function_rank_only(character) ==
  << IF character \in DOMAIN sorting_rank_from_character
     THEN sorting_rank_from_character[character]
     ELSE infinite_sorting_rank >>

\* character_sorting_function: the tuple (sorting_rank, character)
character_sorting_function(character) ==
  << IF character \in DOMAIN sorting_rank_from_character
     THEN sorting_rank_from_character[character]
     ELSE infinite_sorting_rank,
     character >>

\* join_sorted(string_set, character_sorting_function), the set being
\* iterated in the given order; the strings are single characters
join_sorted(iteration) ==
  Values(SortedItems([ i \in DOMAIN iteration |->
    [ key |-> character_sorting_function(iteration[i]),
      value |-> iteration[i] ] ]))

EmptyCharactersData == [ goodly_set |-> { }, abomination_set |-> { } ]

add_goodly(self, character) ==
  [ self EXCEPT !.goodly_set = @ \cup { character } ]

\* add_abomination that takes the character out of the goodly set
add_abomination_exclusive(self, character) ==
  [ goodly_set |-> self.goodly_set \ { character },
    abomination_set |-> self.abomination_set \cup { character } ]

add_abomination(self, character) ==
  [ self EXCEPT !.abomination_set = @ \cup { character } ]

\* the loops of add_data; adding to a set does not depend on the order in
\* which the other set is iterated
RECURSIVE AddEach(_, _, _)
AddEach(self, set, abomination) ==
  IF set = { } THEN self
  ELSE LET character == CHOOSE c \in set : TRUE
       IN  AddEach(IF abomination THEN add_abomination(self, character)
                   ELSE add_goodly(self, character),
                   set \ { character }, abomination)

add_data(self, other) ==
  AddEach(AddEach(self, other.goodly_set, FALSE), other.abomination_set, TRUE)

\* s[: n] of Python for n >= 0
Slice(s, n) == SubSeq(s, 1, Min(n, Len(s)))

\* to_string that cuts the abominations to the whole maximum
to_string_no_budget(goodly_iteration, abomination_iteration, max_count) ==
  LET goodly_string == join_sorted(goodly_iteration)
      abomination_string == join_sorted(abomination_iteration)
      goodly_cut == IF max_count > 0 THEN Slice(goodly_string, max_count)
                    ELSE goodly_string
      abomination_cut == IF max_count > 0
                         THEN Slice(abomination_string, max_count)
                         ELSE abomination_string
  IN  IF Len(abomination_cut) = 0 THEN goodly_cut
      ELSE goodly_cut \o << COMMA >> \o abomination_cut

to_string(goodly_iteration, abomination_iteration, max_count) ==
  LET goodly_string == join_sorted(goodly_iteration)
      abomination_string == join_sorted(abomination_iteration)
      max_abomination_count == Max(0, max_count - Len(goodly_string))
      goodly_cut == IF max_count > 0 THEN Slice(goodly_string, max_count)
                    ELSE goodly_string
      abomination_cut == IF max_count > 0
                         THEN Slice(abomination_string, max_abomination_count)
                         ELSE abomination_string
  IN  IF Len(abomination_cut) = 0 THEN goodly_cut
      ELSE goodly_cut \o << COMMA >> \o abomination_cut

----------------------------------------------------------------------------
(* The ranking scan.                                                       *)

\* [\s] of Python's re on str
IsWhitespace(c) ==
  c \in (9..13) \cup (28..32) \cup { 133, 160, 5760 } \cup (8192..8202)
        \cup { 8232, 8233, 8239, 8287, 12288 }

\* re.fullmatch(IGNORED_RANKING_LINE_REGEX, line) is not None
IGNORED_RANKING_LINE_REGEX(line) ==
  \E i \in 1..Len(line) :
    /\ line[i] = HASH
    /\ \A k \in 1..(i - 1) : IsWhitespace(line[k])
    /\ \A k \in (i + 1)..Len(line) : line[k] # 10

\* the loop without the test of line 244
RECURSIVE RankCharacters_overwrite(_, _, _, _, _)
RankCharacters_overwrite(line, i, number, ranks, infinite) ==
  IF i > Len(line) THEN [ ranks |-> ranks, infinite |-> infinite ]
  ELSE RankCharacters_overwrite(line, i + 1, number,
         [ c \in DOMAIN ranks \cup { line[i] } |->
             IF c = line[i] THEN number ELSE ranks[c] ],
         number + 1)

\* the loop with line 246 outside the test of line 244
RECURSIVE RankCharacters_eager(_, _, _, _, _)
RankCharacters_eager(line, i, number, ranks, infinite) ==
  IF i > Len(line) THEN [ ranks |-> ranks, infinite |-> infinite ]
  ELSE RankCharacters_eager(line, i + 1, number,
         IF line[i] \notin DOMAIN ranks
         THEN ranks @@ (line[i] :> number) ELSE ranks,
         number + 1)

\* lines 243-246 from character i of the line on
RECURSIVE RankCharacters(_, _, _, _, _)
RankCharacters(line, i, number, ranks, infinite) ==
  IF i > Len(line) THEN [ ranks |-> ranks, infinite |-> infinite ]
  ELSE IF line[i] \notin DOMAIN ranks
  THEN RankCharacters(line, i + 1, number,
                      ranks @@ (line[i] :> number), number + 1)
  ELSE RankCharacters(line, i + 1, number, ranks, infinite)

\* lines 229-246 from line number + 1 on
RECURSIVE RankLines(_, _, _, _)
RankLines(lines, number, ranks, infinite) ==
  IF number >= Len(lines) THEN [ ranks |-> ranks, infinite |-> infinite ]
  ELSE IF IGNORED_RANKING_LINE_REGEX(lines[number + 1])
  THEN RankLines(lines, number + 1, ranks, infinite)
  ELSE LET r == RankCharacters(lines[number + 1], 1, number + 1,
                               ranks, infinite)
       IN  RankLines(lines, number + 1, r.ranks, r.infinite)

\* lines 239-241
RankingLineIgnored ==
  /\ pc = "ranking"
  /\ line_number < Len(ranking_lines)
  /\ IGNORED_RANKING_LINE_REGEX(ranking_lines[line_number + 1])
  /\ ignored_lines_file' =
       Append(ignored_lines_file, ranking_lines[line_number + 1])
  /\ line_number' = line_number + 1
  /\ UNCHANGED << pc, ranking_lines, catalogue_lines,
                  sorting_rank_from_character, infinite_sorting_rank,
                  catalogue_index, exact_characters_data_from_sequence,
                  sorted_sequences, exact_file, prefix_file,
                  expandVars, stringVars >>

\* lines 243-246
RankingLineScanned ==
  /\ pc = "ranking"
  /\ line_number < Len(ranking_lines)
  /\ ~IGNORED_RANKING_LINE_REGEX(ranking_lines[line_number + 1])
  /\ LET r == RankCharacters(ranking_lines[line_number + 1], 1,
                             line_number + 1, sorting_rank_from_character,
                             infinite_sorting_rank)
     IN  /\ sorting_rank_from_character' = r.ranks
         /\ infinite_sorting_rank' = r.infinite
  /\ line_number' = line_number + 1
  /\ UNCHANGED << pc, ranking_lines, catalogue_lines, catalogue_index,
                  exact_characters_data_from_sequence, ignored_lines_file,
                  sorted_sequences, exact_file, prefix_file,
                  expandVars, stringVars >>

\* the ranking loop is over: on to the catalogue loop of line 255
RankingEnd ==
  /\ pc = "ranking"
  /\ line_number = Len(ranking_lines)
  /\ pc' = "catalogue"
  /\ UNCHANGED << mainVars, expandVars, stringVars >>

----------------------------------------------------------------------------
(* The catalogue loop and the two tables.                                  *)

PRECOMPUTE_PREFIX_MATCHES_MAX_STOKE_COUNT == 3
MAX_PREFIX_MATCH_COUNT == 20

\* [0-9A-F]
IsHexChar(c) == c \in (48..57) \cup (65..70)

\* [1-5|()\\]
IsRegexChar(c) == c \in 49..53 \/ c \in { PIPE, LPAREN, RPAREN, BACKSLASH }

NoMatch ==
  [ matched |-> FALSE, character |-> 0, abomination_asterisk |-> << >>,
    sequence_regex |-> << >> ]

\* COMPLIANT_LINE_REGEX from the group character on, which starts at q
CompliantFields(line, q) ==
  IF q > Len(line) \/ IsWhitespace(line[q]) THEN NoMatch
  ELSE LET asterisk == /\ q + 2 <= Len(line)
                       /\ line[q + 1] = ASTERISK
                       /\ line[q + 2] = TAB
           tab == IF asterisk THEN q + 2 ELSE q + 1
       IN  IF /\ tab < Len(line)
              /\ line[tab] = TAB
              /\ \A k \in (tab + 1)..Len(line) : IsRegexChar(line[k])
           THEN [ matched |-> TRUE,
                  character |-> line[q],
                  abomination_asterisk |->
                    IF asterisk THEN << ASTERISK >> ELSE << >>,
                  sequence_regex |-> Drop(line, tab + 1) ]
           ELSE NoMatch

\* re.fullmatch(COMPLIANT_LINE_REGEX, line)
COMPLIANT_LINE_REGEX(line) ==
  IF /\ Len(line) >= 2
     /\ line[1] = LETTER_U
     /\ line[2] = PLUS
     /\ \E h \in { 4, 5 } :
          /\ 3 + h <= Len(line)
          /\ \A k \in 3..(2 + h) : IsHexChar(line[k])
          /\ line[3 + h] = TAB
  THEN LET h == CHOOSE h \in { 4, 5 } :
                  /\ 3 + h <= Len(line)
                  /\ \A k \in 3..(2 + h) : IsHexChar(line[k])
                  /\ line[3 + h] = TAB
       IN  CompliantFields(line, 4 + h)
  ELSE NoMatch

\* the dict is the list of its entries [sequence, data] in insertion order
Keys(dict) == [ i \in DOMAIN dict |-> dict[i].sequence ]

HasKey(dict, sequence) == \E i \in DOMAIN dict : dict[i].sequence = sequence

Lookup(dict, sequence) ==
  dict[CHOOSE i \in DOMAIN dict : dict[i].sequence = sequence].data

\* the loop with a new CharactersData for the sequence every time
RECURSIVE AggregateSequences_overwrite(_, _, _, _)
AggregateSequences_overwrite(dict, iteration, character, is_abomination) ==
  IF iteration = << >> THEN dict
  ELSE LET sequence == Head(iteration)
           present == IF HasKey(dict, sequence) THEN dict
                      ELSE Append(dict, [ sequence |-> sequence,
                                          data |-> EmptyCharactersData ])
           added == [ i \in DOMAIN present |->
                      IF present[i].sequence # sequence THEN present[i]
                      ELSE [ present[i] EXCEPT !.data =
                               IF is_abomination
                               THEN add_abomination(EmptyCharactersData,
                                                    character)
                               ELSE add_goodly(EmptyCharactersData,
                                               character) ] ]
       IN  AggregateSequences_overwrite(added, Tail(iteration), character,
                                        is_abomination)

\* lines 276-287, the sequence set being iterated in the given order
RECURSIVE AggregateSequences(_, _, _, _)
AggregateSequences(dict, iteration, character, is_abomination) ==
  IF iteration = << >> THEN dict
  ELSE LET sequence == Head(iteration)
           present == IF HasKey(dict, sequence) THEN dict
                      ELSE Append(dict, [ sequence |-> sequence,
                                          data |-> EmptyCharactersData ])
           added == [ i \in DOMAIN present |->
                      IF present[i].sequence # sequence THEN present[i]
                      ELSE [ present[i] EXCEPT !.data =
                               IF is_abomination
                               THEN add_abomination(@, character)
                               ELSE add_goodly(@, character) ] ]
       IN  AggregateSequences(added, Tail(iteration), character,
                              is_abomination)

\* sorted(exact_characters_data_from_sequence.keys())
SortedKeys(dict) ==
  Values(SortedItems([ i \in DOMAIN dict |->
    [ key |-> dict[i].sequence, value |-> dict[i].sequence ] ]))

\* list(itertools.product('12345', repeat=length)), joined
RECURSIVE DigitCombinations(_)
DigitCombinations(length) ==
  IF length = 0 THEN << << >> >>
  ELSE LET shorter == DigitCombinations(length - 1)
       IN  [ k \in 1..(5 * Len(shorter)) |->
               Append(shorter[((k - 1) \div 5) + 1], 49 + ((k - 1) % 5)) ]

RECURSIVE PrefixesUpTo(_)
PrefixesUpTo(length) ==
  IF length = 0 THEN << >>
  ELSE PrefixesUpTo(length - 1) \o DigitCombinations(length)

prefix_sequence_list == PrefixesUpTo(PRECOMPUTE_PREFIX_MATCHES_MAX_STOKE_COUNT)

\* the range test with <= on the left
InPrefixRange_inclusive(prefix_sequence, full_sequence) ==
  /\ ~StrLess(full_sequence, prefix_sequence)
  /\ StrLess(full_sequence, Append(prefix_sequence, MAX_CHARACTER))

\* prefix_sequence < full_sequence < prefix_sequence + MAX_CHARACTER
InPrefixRange(prefix_sequence, full_sequence) ==
  /\ StrLess(prefix_sequence, full_sequence)
  /\ StrLess(full_sequence, Append(prefix_sequence, MAX_CHARACTER))

\* lines 330-336 from entry i of the dict on
RECURSIVE PrefixData(_, _, _, _)
PrefixData(dict, i, prefix_sequence, prefix_characters_data) ==
  IF i > Len(dict) THEN prefix_characters_data
  ELSE PrefixData(dict, i + 1, prefix_sequence,
         IF InPrefixRange(prefix_sequence, dict[i].sequence)
         THEN add_data(prefix_characters_data, dict[i].data)
         ELSE prefix_characters_data)

\* f'{sequence}\t{string}'
TableLine(sequence, string) == sequence \o << TAB >> \o string

\* lines 265-267
CatalogueLineIgnored ==
  /\ pc = "catalogue"
  /\ catalogue_index < Len(catalogue_lines)
  /\ ~COMPLIANT_LINE_REGEX(catalogue_lines[catalogue_index + 1]).matched
  /\ ignored_lines_file' =
       Append(ignored_lines_file, catalogue_lines[catalogue_index + 1])
  /\ catalogue_index' = catalogue_index + 1
  /\ UNCHANGED << pc, ranking_lines, catalogue_lines, line_number,
                  sorting_rank_from_character, infinite_sorting_rank,
                  exact_characters_data_from_sequence, sorted_sequences,
                  exact_file, prefix_file, expandVars, stringVars >>

\* lines 269-287
CatalogueLineAggregated ==
  /\ pc = "catalogue"
  /\ catalogue_index < Len(catalogue_lines)
  /\ LET match == COMPLIANT_LINE_REGEX(catalogue_lines[catalogue_index + 1])
         expansion == to_sequence_set(match.sequence_regex)
     IN  /\ match.matched
         /\ ~expansion.error
         /\ \E iteration \in Iterations(expansion.set) :
              exact_characters_data_from_sequence' =
                AggregateSequences(exact_characters_data_from_sequence,
                                   iteration, match.character,
                                   Len(match.abomination_asterisk) > 0)
  /\ catalogue_index' = catalogue_index + 1
  /\ UNCHANGED << pc, ranking_lines, catalogue_lines, line_number,
                  sorting_rank_from_character, infinite_sorting_rank,
                  ignored_lines_file, sorted_sequences, exact_file,
                  prefix_file, expandVars, stringVars >>

\* line 274 raises IndexError, which nothing catches: the run ends
CatalogueLineRaises ==
  /\ pc = "catalogue"
  /\ catalogue_index < Len(catalogue_lines)
  /\ LET match == COMPLIANT_LINE_REGEX(catalogue_lines[catalogue_index + 1])
     IN  /\ match.matched
         /\ to_sequence_set(match.sequence_regex).error
  /\ pc' = "IndexError"
  /\ UNCHANGED << mainVars, expandVars, stringVars >>

\* line 289
SortSequences ==
  /\ pc = "catalogue"
  /\ catalogue_index = Len(catalogue_lines)
  /\ sorted_sequences' = SortedKeys(exact_characters_data_from_sequence)
  /\ pc' = "open_exact"
  /\ UNCHANGED << ranking_lines, catalogue_lines, line_number,
                  sorting_rank_from_character, infinite_sorting_rank,
                  catalogue_index, exact_characters_data_from_sequence,
                  ignored_lines_file, exact_file, prefix_file,
                  expandVars, stringVars >>

\* lines 291-294: the file is created and the header written
OpenExactFile ==
  /\ pc = "open_exact"
  /\ exact_file' = [ opened |-> TRUE, lines |-> << >> ]
  /\ pc' = "exact"
  /\ UNCHANGED << ranking_lines, catalogue_lines, line_number,
                  sorting_rank_from_character, infinite_sorting_rank,
                  catalogue_index, exact_characters_data_from_sequence,
                  ignored_lines_file, sorted_sequences, prefix_file,
                  expandVars, stringVars >>

\* lines 296-304
WriteExactLine ==
  /\ pc = "exact"
  /\ Len(exact_file.lines) < Len(sorted_sequences)
  /\ LET sequence == sorted_sequences[Len(exact_file.lines) + 1]
         exact_characters_data ==
           Lookup(exact_characters_data_from_sequence, sequence)
     IN  \E goodly_iteration \in Iterations(exact_characters_data.goodly_set),
            abomination_iteration \in
              Iterations(exact_characters_data.abomination_set) :
           exact_file' =
             [ exact_file EXCEPT !.lines =
                 Append(@, TableLine(sequence,
                   to_string(goodly_iteration, abomination_iteration, 0))) ]
  /\ UNCHANGED << pc, ranking_lines, catalogue_lines, line_number,
                  sorting_rank_from_character, infinite_sorting_rank,
                  catalogue_index, exact_characters_data_from_sequence,
                  ignored_lines_file, sorted_sequences, prefix_file,
                  expandVars, stringVars >>

\* lines 306-326: the file is created and the header written
OpenPrefixFile ==
  /\ pc = "exact"
  /\ Len(exact_file.lines) = Len(sorted_sequences)
  /\ prefix_file' = [ opened |-> TRUE, lines |-> << >> ]
  /\ pc' = "prefix"
  /\ UNCHANGED << ranking_lines, catalogue_lines, line_number,
                  sorting_rank_from_character, infinite_sorting_rank,
                  catalogue_index, exact_characters_data_from_sequence,
                  ignored_lines_file, sorted_sequences, exact_file,
                  expandVars, stringVars >>

\* lines 328-344
WritePrefixLine ==
  /\ pc = "prefix"
  /\ Len(prefix_file.lines) < Len(prefix_sequence_list)
  /\ LET prefix_sequence == prefix_sequence_list[Len(prefix_file.lines) + 1]
         prefix_characters_data ==
           PrefixData(exact_characters_data_from_sequence, 1,
                      prefix_sequence, EmptyCharactersData)
     IN  \E goodly_iteration \in Iterations(prefix_characters_data.goodly_set),
            abomination_iteration \in
              Iterations(prefix_characters_data.abomination_set) :
           prefix_file' =
             [ prefix_file EXCEPT !.lines =
                 Append(@, TableLine(prefix_sequence,
                   to_string(goodly_iteration, abomination_iteration,
                             MAX_PREFIX_MATCH_COUNT))) ]
  /\ UNCHANGED << pc, ranking_lines, catalogue_lines, line_number,
                  sorting_rank_from_character, infinite_sorting_rank,
                  catalogue_index, exact_characters_data_from_sequence,
                  ignored_lines_file, sorted_sequences, exact_file,
                  expandVars, stringVars >>

\* the prefix file is closed and the run ends
Finish ==
  /\ pc = "prefix"
  /\ Len(prefix_file.lines) = Len(prefix_sequence_list)
  /\ pc' = "done"
  /\ UNCHANGED << mainVars, expandVars, stringVars >>

----------------------------------------------------------------------------
(* Checked inputs of to_sequence_set: every concatenation of at most       *)
(* MaxTokens of these pieces.                                              *)

RegexTokens ==
  { << 49 >>, << 50 >>,                              \* 1  2
    << LPAREN, 49, PIPE, 50, RPAREN >>,              \* (1|2)
    << LPAREN, 49, RPAREN >>,                        \* (1)
    << LPAREN, PIPE, 49, RPAREN >>,                  \* (|1)
    << LPAREN, RPAREN >>,                            \* ()
    << LPAREN, 50, PIPE, 50, RPAREN >>,              \* (2|2)
    << BACKSLASH, 49 >>, << BACKSLASH, 50 >>,        \* \1  \2
    << LPAREN >>, << RPAREN >>, << BACKSLASH >>, << PIPE >> }

RECURSIVE Concatenations(_)
Concatenations(n) ==
  IF n = 0 THEN { << >> }
  ELSE LET shorter == Concatenations(n - 1)
       IN  shorter \cup { s \o t : s \in shorter, t \in RegexTokens }

InitMainIdle ==
  /\ ranking_lines = << >>
  /\ catalogue_lines = << >>
  /\ line_number = 0
  /\ sorting_rank_from_character = << >>
  /\ infinite_sorting_rank = 0
  /\ catalogue_index = 0
  /\ exact_characters_data_from_sequence = << >>
  /\ ignored_lines_file = << >>
  /\ sorted_sequences = << >>
  /\ exact_file = [ opened |-> FALSE, lines |-> << >> ]
  /\ prefix_file = [ opened |-> FALSE, lines |-> << >> ]

InitExpandIdle ==
  /\ sequence_regex = << >>
  /\ back_referenced_sequence_regex = << >>
  /\ group_alternatives_set_list = << >>
  /\ sequence_set = { }

InitStringIdle ==
  /\ characters_data = [ goodly_set |-> { }, abomination_set |-> { } ]
  /\ max_candidate_count = 0
  /\ characters_data_string = << >>

InitExpand ==
  /\ pc = "to_sequence_set"
  /\ sequence_regex \in Concatenations(MaxTokens)
  /\ back_referenced_sequence_regex = << >>
  /\ group_alternatives_set_list = << >>
  /\ sequence_set = { }
  /\ InitMainIdle
  /\ InitStringIdle

\* lines 91-98: the pass that turns the groups into back references
SubstituteGroups ==
  /\ pc = "to_sequence_set"
  /\ LET grouped == SubCaptureGroups(sequence_regex, 1, << >>)
     IN  /\ back_referenced_sequence_regex' = grouped.string
         /\ group_alternatives_set_list' = grouped.list
  /\ pc' = "combinations"
  /\ UNCHANGED << sequence_regex, sequence_set, mainVars, stringVars >>

\* lines 100-115: every combination is substituted and the set returned
ExpandReturn ==
  /\ pc = "combinations"
  /\ LET r == ExpandCombinations(back_referenced_sequence_regex,
                                 group_alternatives_set_list)
     IN  /\ ~r.error
         /\ sequence_set' = r.set
  /\ pc' = "returned"
  /\ UNCHANGED << sequence_regex, back_referenced_sequence_regex,
                  group_alternatives_set_list, mainVars, stringVars >>

\* line 75 raises IndexError out of to_sequence_set
ExpandRaise ==
  /\ pc = "combinations"
  /\ ExpandCombinations(back_referenced_sequence_regex,
                        group_alternatives_set_list).error
  /\ pc' = "IndexError"
  /\ UNCHANGED << expandVars, mainVars, stringVars >>

NextExpand == SubstituteGroups \/ ExpandReturn \/ ExpandRaise

SpecExpand == InitExpand /\ [][NextExpand]_vars

----------------------------------------------------------------------------
(* The pattern language read directly, in one left to right pass.          *)

\* p[i..j] is a group: parentheses around digits 1-5 and pipes only
IsGroup(p, i, j) ==
  /\ i < j /\ j <= Len(p)
  /\ p[i] = LPAREN /\ p[j] = RPAREN
  /\ \A k \in (i + 1)..(j - 1) : IsAlternativesChar(p[k])

GroupStarts(p) ==
  { i \in 1..Len(p) :
      p[i] = LPAREN /\ \E j \in (i + 1)..Len(p) : IsGroup(p, i, j) }

GroupCount(p) == Cardinality(GroupStarts(p))

GroupClose(p, i) == CHOOSE j \in (i + 1)..Len(p) : IsGroup(p, i, j)

\* the alternatives of the group p[i..j]: its maximal pipe-free pieces
Alternatives(p, i, j) ==
  { SubSeq(p, ab[1], ab[2]) :
      ab \in { x \in ((i + 1)..j) \X (i..(j - 1)) :
                 /\ x[2] >= x[1] - 1
                 /\ x[1] = i + 1 \/ p[x[1] - 1] = PIPE
                 /\ x[2] = j - 1 \/ p[x[2] + 1] = PIPE
                 /\ \A k \in x[1]..x[2] : p[k] # PIPE } }

\* the alternative sets of the groups, numbered left to right
GroupAlternatives(p) ==
  LET starts == GroupStarts(p)
      nth(n) == CHOOSE i \in starts :
                  Cardinality({ h \in starts : h < i }) = n - 1
  IN  [ n \in 1..Cardinality(starts) |->
          Alternatives(p, nth(n), GroupClose(p, nth(n))) ]

\* the indices of the back references written in p
WrittenBackReferences(p) ==
  { p[i + 1] - DIGIT_0 : i \in { h \in 1..(Len(p) - 1) :
                                   p[h] = BACKSLASH /\ p[h + 1] \in 49..57 } }

\* a parenthesis opens while an earlier one is still open
HasNestedGroups(p) ==
  \E i, j \in 1..Len(p) :
    /\ i < j /\ p[i] = LPAREN /\ p[j] = LPAREN
    /\ \A k \in (i + 1)..(j - 1) : p[k] # RPAREN

MeetsAssumptions(p) ==
  /\ ~HasNestedGroups(p)
  /\ GroupCount(p) <= 9
  /\ \A k \in WrittenBackReferences(p) : k <= GroupCount(p)

\* p from index i on, n groups being to the left of i, with the n-th group
\* and every reference to it replaced by choice[n]
RECURSIVE Denoted(_, _, _, _)
Denoted(p, i, n, choice) ==
  IF i > Len(p) THEN << >>
  ELSE IF i \in GroupStarts(p)
  THEN choice[n + 1] \o Denoted(p, GroupClose(p, i) + 1, n + 1, choice)
  ELSE IF p[i] = BACKSLASH /\ i < Len(p) /\ p[i + 1] \in 49..57
  THEN choice[p[i + 1] - DIGIT_0] \o Denoted(p, i + 2, n, choice)
  ELSE << p[i] >> \o Denoted(p, i + 1, n, choice)

Choices(p) ==
  LET alts == GroupAlternatives(p)
  IN  { c \in [ DOMAIN alts -> UNION Range(alts) ] :
          \A n \in DOMAIN alts : c[n] \in alts[n] }

DenotedSet(p) == { Denoted(p, 1, 0, c) : c \in Choices(p) }

RECURSIVE ProductOfCounts(_)
ProductOfCounts(sets) ==
  IF sets = << >> THEN 1
  ELSE Cardinality(Head(sets)) * ProductOfCounts(Tail(sets))

\* C1: for a regex that meets the assumptions of to_sequence_set (groups
\* not nested, at most 9 of them, every back reference naming a group),
\* to_sequence_set returns exactly the strings got by replacing every group
\* and every back reference to it by one choice of alternative, over all
\* choices; a regex with no group and no back reference gives itself alone,
\* and the set is never larger than the product of the groups' numbers of
\* distinct alternatives.
C1_ExpansionIsDenotedSet ==
  (pc \in { "returned", "IndexError" } /\ MeetsAssumptions(sequence_regex)) =>
    /\ pc = "returned"
    /\ sequence_set = DenotedSet(sequence_regex)
    /\ Cardinality(sequence_set)
         <= ProductOfCounts(GroupAlternatives(sequence_regex))
    /\ (GroupCount(sequence_regex) = 0
          /\ WrittenBackReferences(sequence_regex) = { })
         => sequence_set = { sequence_regex }

C1_Witness ==
  /\ pc = "returned"
  /\ MeetsAssumptions(sequence_regex)
  /\ GroupCount(sequence_regex) = 2
  /\ WrittenBackReferences(sequence_regex) = { 2 }
  /\ Cardinality(sequence_set) = 2

----------------------------------------------------------------------------
(* The ranking scan on its own, and CharactersData on its own.             *)

SeqsUpTo(set, n) == UNION { [ 1..k -> set ] : k \in 0..n }

RankingLinePool ==
  { << >>, << 97 >>, << 98 >>, << 97, 98 >>, << 98, 97 >>,   \* a b ab ba
    << HASH >>, << SPACE, HASH, 97 >>, << HASH, 98 >>,       \* comments
    << SPACE, 97 >>, << 97, HASH >> }                        \* not comments

InitRank ==
  /\ pc = "ranking"
  /\ ranking_lines \in SeqsUpTo(RankingLinePool, MaxRankingLines)
  /\ catalogue_lines = << >>
  /\ line_number = 0
  /\ sorting_rank_from_character = << >>
  /\ infinite_sorting_rank = 0
  /\ catalogue_index = 0
  /\ exact_characters_data_from_sequence = << >>
  /\ ignored_lines_file = << >>
  /\ sorted_sequences = << >>
  /\ exact_file = [ opened |-> FALSE, lines |-> << >> ]
  /\ prefix_file = [ opened |-> FALSE, lines |-> << >> ]
  /\ InitExpandIdle
  /\ InitStringIdle

NextRank == RankingLineIgnored \/ RankingLineScanned \/ RankingEnd

SpecRank == InitRank /\ [][NextRank]_vars

\* ranking sources of the runs that go on after the ranking scan
RankingSources ==
  { << >>,
    << << 99 >>, << HASH, 97 >>, << 97, 98 >> >> }           \* c  #a  ab

CharacterPool == { 97, 98, 99 }

\* the state when the ranking loop has scanned the ranking source
Ranked(lines) ==
  /\ ranking_lines = lines
  /\ line_number = Len(lines)
  /\ sorting_rank_from_character = RankLines(lines, 0, << >>, 0).ranks
  /\ infinite_sorting_rank = RankLines(lines, 0, << >>, 0).infinite

InitString ==
  /\ pc = "characters_data"
  /\ \E lines \in RankingSources : Ranked(lines)
  /\ catalogue_lines = << >>
  /\ catalogue_index = 0
  /\ exact_characters_data_from_sequence = << >>
  /\ ignored_lines_file = << >>
  /\ sorted_sequences = << >>
  /\ exact_file = [ opened |-> FALSE, lines |-> << >> ]
  /\ prefix_file = [ opened |-> FALSE, lines |-> << >> ]
  /\ InitExpandIdle
  /\ characters_data = EmptyCharactersData
  /\ max_candidate_count \in 0..MaxCandidateCount
  /\ characters_data_string = << >>

AddGoodly ==
  /\ pc = "characters_data"
  /\ \E character \in CharacterPool :
       characters_data' = add_goodly(characters_data, character)
  /\ UNCHANGED << pc, max_candidate_count, characters_data_string,
                  mainVars, expandVars >>

AddAbomination ==
  /\ pc = "characters_data"
  /\ \E character \in CharacterPool :
       characters_data' = add_abomination(characters_data, character)
  /\ UNCHANGED << pc, max_candidate_count, characters_data_string,
                  mainVars, expandVars >>

Serialize ==
  /\ pc = "characters_data"
  /\ \E goodly_iteration \in Iterations(characters_data.goodly_set),
        abomination_iteration \in Iterations(characters_data.abomination_set) :
       characters_data_string' =
         to_string(goodly_iteration, abomination_iteration,
                   max_candidate_count)
  /\ pc' = "to_string"
  /\ UNCHANGED << characters_data, max_candidate_count, mainVars, expandVars >>

NextString == AddGoodly \/ AddAbomination \/ Serialize

SpecString == InitString /\ [][NextString]_vars

----------------------------------------------------------------------------
(* The whole run.                                                          *)

\* a catalogue line U+4E00 <tab> character asterisk <tab> regex
CatalogueLine(character, asterisk, regex) ==
  << LETTER_U, PLUS, 52, 69, 48, 48, TAB, character >> \o asterisk
    \o << TAB >> \o regex

TenGroups ==
  LET two == << LPAREN, 50, RPAREN >>
      none == << LPAREN, RPAREN >>
  IN  two \o none \o none \o none \o none \o none \o none \o none
          \o none \o none

CataloguePool ==
  { CatalogueLine(97, << >>, << 49, 49 >>),                        \* a 11
    CatalogueLine(98, << ASTERISK >>, << 49, 50 >>),               \* b* 12
    CatalogueLine(97, << ASTERISK >>,
                  << 49, LPAREN, 49, PIPE, 50, RPAREN >>),         \* a* 1(1|2)
    CatalogueLine(98, << >>,
      << LPAREN, 49, PIPE, 50, RPAREN, BACKSLASH, 49 >>),          \* b (1|2)\1
    CatalogueLine(99, << >>, << 49, BACKSLASH, 49 >>),             \* c 1\1
    CatalogueLine(97, << >>,
                  << LPAREN, 49, RPAREN, BACKSLASH, 50 >>),        \* a (1)\2
    CatalogueLine(98, << >>,
      << LPAREN, LPAREN, 49, PIPE, 50, RPAREN, RPAREN >>),         \* b ((1|2))
    CatalogueLine(99, << >>, TenGroups),                           \* c (2)()...
    CatalogueLine(99, << ASTERISK >>, << 49, 50, 51, 52 >>),       \* c* 1234
    << LETTER_U, PLUS, 52, 101, 48, 48, TAB, 97, TAB, 49, 50 >> }  \* U+4e00 ...

Init ==
  /\ pc = "ranking"
  /\ ranking_lines = << << 99 >>, << HASH, 97 >>, << 97, 98 >> >>  \* c  #a  ab
  /\ catalogue_lines \in SeqsUpTo(CataloguePool, MaxCatalogueLines)
  /\ line_number = 0
  /\ sorting_rank_from_character = << >>
  /\ infinite_sorting_rank = 0
  /\ catalogue_index = 0
  /\ exact_characters_data_from_sequence = << >>
  /\ ignored_lines_file = << >>
  /\ sorted_sequences = << >>
  /\ exact_file = [ opened |-> FALSE, lines |-> << >> ]
  /\ prefix_file = [ opened |-> FALSE, lines |-> << >> ]
  /\ InitExpandIdle
  /\ InitStringIdle

Next ==
  \/ RankingLineIgnored
  \/ RankingLineScanned
  \/ RankingEnd
  \/ CatalogueLineIgnored
  \/ CatalogueLineAggregated
  \/ CatalogueLineRaises
  \/ SortSequences
  \/ OpenExactFile
  \/ WriteExactLine
  \/ OpenPrefixFile
  \/ WritePrefixLine
  \/ Finish

Spec == Init /\ [][Next]_vars

----------------------------------------------------------------------------
(* Ranking and serialization, stated without the scan.                     *)

\* the first character that is not whitespace is #
IsCommentLine(line) ==
  LET inked == { i \in 1..Len(line) : ~IsWhitespace(line[i]) }
  IN  inked # { } /\ line[CHOOSE i \in inked : \A h \in inked : i <= h] = HASH

\* the lines among the first n that are no comment and hold the character
LinesWith(character, n) ==
  { k \in 1..n : /\ ~IsCommentLine(ranking_lines[k])
                 /\ character \in Range(ranking_lines[k]) }

Least(set) == CHOOSE x \in set : \A y \in set : x <= y

Greatest(set) == CHOOSE x \in set : \A y \in set : x >= y

RankedCharacters(n) ==
  { c \in UNION { Range(ranking_lines[k]) : k \in 1..n } :
      LinesWith(c, n) # { } }

\* C6: once line_number lines are scanned, exactly the characters of the
\* lines that are no comment have a rank, and the rank of each is the
\* number, counted with the comment lines, of the first such line it is on.
C6_RankIsFirstLine ==
  pc \in { "ranking", "catalogue" } =>
    /\ DOMAIN sorting_rank_from_character = RankedCharacters(line_number)
    /\ \A c \in RankedCharacters(line_number) :
         sorting_rank_from_character[c] = Least(LinesWith(c, line_number))

C6_Witness ==
  /\ pc = "catalogue"
  /\ \E c \in DOMAIN sorting_rank_from_character :
       /\ Cardinality(LinesWith(c, line_number)) >= 2
       /\ \E k \in 1..(sorting_rank_from_character[c] - 1) :
            IsCommentLine(ranking_lines[k])

\* the lines that gave a rank to some character
ContributingLines(n) == { Least(LinesWith(c, n)) : c \in RankedCharacters(n) }

\* C7: the infinite rank is one more than the highest line number that gave
\* a rank to some character, hence greater than every rank, also when later
\* lines hold only characters ranked before; it is 0 when no line gave a
\* rank.
C7_InfiniteRank ==
  pc \in { "ranking", "catalogue" } =>
    /\ ContributingLines(line_number) = { } => infinite_sorting_rank = 0
    /\ ContributingLines(line_number) # { } =>
         infinite_sorting_rank = Greatest(ContributingLines(line_number)) + 1
    /\ \A c \in DOMAIN sorting_rank_from_character :
         sorting_rank_from_character[c] < infinite_sorting_rank

C7_Witness ==
  /\ pc = "catalogue"
  /\ line_number >= 2
  /\ ~IsCommentLine(ranking_lines[line_number])
  /\ ranking_lines[line_number] # << >>
  /\ line_number \notin ContributingLines(line_number)
  /\ infinite_sorting_rank <= line_number

\* the rank of a character, from the ranking source
RankOf(c) ==
  IF LinesWith(c, Len(ranking_lines)) = { }
  THEN IF ContributingLines(Len(ranking_lines)) = { } THEN 0
       ELSE Greatest(ContributingLines(Len(ranking_lines))) + 1
  ELSE Least(LinesWith(c, Len(ranking_lines)))

\* c comes before d in the order (rank, character), rank giving the ranks
Before(c, d, rank) == rank[c] < rank[d] \/ (rank[c] = rank[d] /\ c < d)

\* the characters of the set in the order (rank, character)
InRankOrder(set) ==
  LET rank == [ c \in set |-> RankOf(c) ]
  IN  CHOOSE order \in Iterations(set) :
        \A i \in 1..(Len(order) - 1) : Before(order[i], order[i + 1], rank)

\* C5: with a maximum m > 0, to_string gives the first min(m, |preferred|)
\* preferred characters in sorted order, then the first max(0, m -
\* |preferred|) discouraged ones in sorted order, never more than m
\* characters; the comma is there exactly when a discouraged character is;
\* with m = 0 nothing is cut.
C5_ToStringTruncation ==
  pc = "to_string" =>
    LET m == max_candidate_count
        preferred == InRankOrder(characters_data.goodly_set)
        discouraged == InRankOrder(characters_data.abomination_set)
        kept == IF m = 0 THEN preferred
                ELSE SubSeq(preferred, 1, Min(m, Len(preferred)))
        rest == IF m = 0 THEN discouraged
                ELSE SubSeq(discouraged, 1,
                            Min(Max(0, m - Len(preferred)), Len(discouraged)))
    IN  /\ m > 0 => Len(kept) + Len(rest) <= m
        /\ rest = << >> => characters_data_string = kept
        /\ rest # << >> =>
             characters_data_string = kept \o << COMMA >> \o rest

C5_Witness ==
  /\ pc = "to_string"
  /\ max_candidate_count = 3
  /\ Cardinality(characters_data.goodly_set) = 2
  /\ Cardinality(characters_data.abomination_set) = 3
  /\ Len(characters_data_string) = 4

----------------------------------------------------------------------------
(* The catalogue and the tables, stated from the two inputs.               *)

\* the record shape: tag of 4 or 5 hex digits (h) and an optional marker (a)
HasShape(line, h, a) ==
  /\ Len(line) > 5 + h + a
  /\ line[1] = LETTER_U /\ line[2] = PLUS
  /\ \A k \in 3..(2 + h) : IsHexChar(line[k])
  /\ line[3 + h] = TAB
  /\ ~IsWhitespace(line[4 + h])
  /\ a = 1 => line[5 + h] = ASTERISK
  /\ line[5 + h + a] = TAB
  /\ \A k \in (6 + h + a)..Len(line) : IsRegexChar(line[k])

IsWellFormed(line) == \E h \in { 4, 5 }, a \in { 0, 1 } : HasShape(line, h, a)

ShapeOf(line) ==
  CHOOSE x \in { 4, 5 } \X { 0, 1 } : HasShape(line, x[1], x[2])

RecordCharacter(line) == line[4 + ShapeOf(line)[1]]

RecordIsDiscouraged(line) == ShapeOf(line)[2] = 1

RecordPattern(line) ==
  Drop(line, 6 + ShapeOf(line)[1] + ShapeOf(line)[2])

\* the well-formed records among the first n catalogue lines
WellFormedRecords(n) ==
  { k \in 1..n : IsWellFormed(catalogue_lines[k]) }

\* a back reference of the pattern names no group
HasBadBackReference(pattern) ==
  \E k \in WrittenBackReferences(pattern) : k > GroupCount(pattern)

BadBackReferenceRecords ==
  { k \in WellFormedRecords(Len(catalogue_lines)) :
      HasBadBackReference(RecordPattern(catalogue_lines[k])) }

NoTableWritten ==
  /\ ~exact_file.opened /\ exact_file.lines = << >>
  /\ ~prefix_file.opened /\ prefix_file.lines = << >>

\* C2: when some well-formed record has a back reference that names no
\* group, the run ends in a fatal error at the first such record and nothing
\* is ever written to either table, wherever the record sits; a table is
\* written to only when every record has been expanded.
C2_BadBackReferenceWritesNoTable ==
  /\ (exact_file.opened \/ prefix_file.opened)
       => catalogue_index = Len(catalogue_lines)
  /\ pc = "IndexError" => catalogue_index + 1 \in BadBackReferenceRecords
  /\ BadBackReferenceRecords # { } =>
       /\ pc \in { "ranking", "catalogue", "IndexError" }
       /\ catalogue_index < Least(BadBackReferenceRecords)
       /\ NoTableWritten

C2_Witness ==
  /\ pc = "IndexError"
  /\ catalogue_index = 1
  /\ BadBackReferenceRecords = { 2 }
  /\ exact_characters_data_from_sequence # << >>
  /\ NoTableWritten

\* the pattern breaks an assumption of to_sequence_set on its groups
BreaksGroupAssumptions(pattern) ==
  HasNestedGroups(pattern) \/ GroupCount(pattern) > 9

\* C3: a well-formed record whose pattern has nested groups or more than 9
\* groups ends the run in a fatal error: the catalogue loop never gets past
\* it, so it gives nothing to the exact table.
C3_GroupViolationAborts ==
  \A k \in WellFormedRecords(catalogue_index) :
    ~BreaksGroupAssumptions(RecordPattern(catalogue_lines[k]))

\* the records among the first n whose expansion holds the sequence
RecordsOf(sequence, n) ==
  { k \in WellFormedRecords(n) :
      sequence \in to_sequence_set(RecordPattern(catalogue_lines[k])).set }

ExpandedSequences(n) ==
  UNION { to_sequence_set(RecordPattern(catalogue_lines[k])).set :
            k \in WellFormedRecords(n) }

PreferredOf(sequence, n) ==
  { RecordCharacter(catalogue_lines[k]) :
      k \in { h \in RecordsOf(sequence, n) :
                ~RecordIsDiscouraged(catalogue_lines[h]) } }

DiscouragedOf(sequence, n) ==
  { RecordCharacter(catalogue_lines[k]) :
      k \in { h \in RecordsOf(sequence, n) :
                RecordIsDiscouraged(catalogue_lines[h]) } }

IsMalformed(line) == ~IsWellFormed(line)

\* C9: in the catalogue loop and when it has ended without a fatal error,
\* the exact table has an entry for
\* exactly the sequences some processed well-formed record expands to, with
\* the characters of the unmarked (marked) such records as preferred
\* (discouraged) set; malformed records change nothing in it, go to the
\* ignored lines in their order, and the loop goes on to the last record.
C9_ExactTableIsAggregate ==
  pc \in { "catalogue", "open_exact" } =>
    LET dict == exact_characters_data_from_sequence IN
    /\ Range(Keys(dict)) = ExpandedSequences(catalogue_index)
    /\ Cardinality(Range(Keys(dict))) = Len(dict)
    /\ \A i \in DOMAIN dict :
         /\ dict[i].data.goodly_set
              = PreferredOf(dict[i].sequence, catalogue_index)
         /\ dict[i].data.abomination_set
              = DiscouragedOf(dict[i].sequence, catalogue_index)
    /\ ignored_lines_file =
         SelectSeq(ranking_lines, IsCommentLine)
           \o SelectSeq(SubSeq(catalogue_lines, 1, catalogue_index),
                        IsMalformed)
    /\ pc # "catalogue" => catalogue_index = Len(catalogue_lines)

C9_Witness ==
  /\ pc = "open_exact"
  /\ Len(catalogue_lines) = 2
  /\ IsMalformed(catalogue_lines[1])
  /\ IsWellFormed(catalogue_lines[2])
  /\ Len(exact_characters_data_from_sequence) = 2
  /\ Len(ignored_lines_file) = 2

\* s starts with p
StartsWith(s, p) == Len(p) <= Len(s) /\ SubSeq(s, 1, Len(p)) = p

\* the digit strings over 1..5 of length 1 to 3
DigitStrings == UNION { [ 1..n -> 49..53 ] : n \in 1..3 }

\* the serialization of two sets of characters, cut to at most m characters
\* when m > 0
Serialized(goodly, abomination, m) ==
  LET preferred == InRankOrder(goodly)
      discouraged == InRankOrder(abomination)
      kept == IF m = 0 THEN preferred
              ELSE SubSeq(preferred, 1, Min(m, Len(preferred)))
      rest == IF m = 0 THEN discouraged
              ELSE SubSeq(discouraged, 1,
                          Min(Max(0, m - Len(preferred)), Len(discouraged)))
  IN  IF rest = << >> THEN kept ELSE kept \o << COMMA >> \o rest

\* the entries of the exact table whose key properly extends the prefix
ExtensionsOf(p) ==
  { i \in DOMAIN exact_characters_data_from_sequence :
      LET s == exact_characters_data_from_sequence[i].sequence
      IN  StartsWith(s, p) /\ s # p }

\* C4: each row of the prefix table, when it is written, is the row of the
\* next digit string p and holds the unions of the preferred and of the
\* discouraged sets of the exact table keys that start with p and are longer
\* than p; the range test of the code picks exactly these keys; and when
\* the run is done there is one row for each digit string of length 1 to 3.
C4_PrefixAggregation ==
  /\ pc = "done" =>
       /\ Len(prefix_file.lines) = Cardinality(DigitStrings)
       /\ \A p \in DigitStrings : \E k \in DOMAIN prefix_file.lines :
            StartsWith(prefix_file.lines[k], Append(p, TAB))
  /\ prefix_file.lines # << >> =>
       LET dict == exact_characters_data_from_sequence
           p == prefix_sequence_list[Len(prefix_file.lines)]
       IN  /\ p \in DigitStrings
           /\ \A i \in DOMAIN dict :
                InPrefixRange(p, dict[i].sequence) <=> i \in ExtensionsOf(p)
           /\ prefix_file.lines[Len(prefix_file.lines)] =
                TableLine(p, Serialized(
                  UNION { dict[i].data.goodly_set : i \in ExtensionsOf(p) },
                  UNION { dict[i].data.abomination_set : i \in ExtensionsOf(p) },
                  MAX_PREFIX_MATCH_COUNT))

C4_Witness ==
  /\ pc = "prefix"
  /\ prefix_file.lines # << >>
  /\ LET p == prefix_sequence_list[Len(prefix_file.lines)]
     IN  /\ \E i \in DOMAIN exact_characters_data_from_sequence :
              /\ exact_characters_data_from_sequence[i].sequence = p
              /\ exact_characters_data_from_sequence[i].data.abomination_set
                   = { 98 }
         /\ Cardinality(ExtensionsOf(p)) = 1
         /\ prefix_file.lines[Len(prefix_file.lines)]
              = TableLine(p, << COMMA, 99 >>)

----------------------------------------------------------------------------
(* The tables as functions of the inputs.                                  *)

\* the expansion of each well-formed record
Expansions ==
  [ k \in WellFormedRecords(Len(catalogue_lines)) |->
      to_sequence_set(RecordPattern(catalogue_lines[k])).set ]

\* the characters of the records of the set that have, or have not, the
\* marker
CharactersOf(records, discouraged) ==
  { RecordCharacter(catalogue_lines[k]) :
      k \in { h \in records :
                RecordIsDiscouraged(catalogue_lines[h]) = discouraged } }

\* the line of the records of the set under the sequence or prefix
LineOf(sequence, records, m) ==
  sequence \o << TAB >>
    \o Serialized(CharactersOf(records, FALSE), CharactersOf(records, TRUE), m)

\* the exact table the expansions give
ExactLinesOf(expansions) ==
  LET all == UNION Range(expansions)
      at(k) == CHOOSE s \in all :
                 Cardinality({ t \in all : StrLess(t, s) }) = k - 1
  IN  [ k \in 1..Cardinality(all) |->
          LineOf(at(k), { h \in DOMAIN expansions : at(k) \in expansions[h] },
                 0) ]

\* the row of the prefix the expansions give
PrefixLineOf(p, expansions) ==
  LineOf(p, { k \in DOMAIN expansions :
                \E s \in expansions[k] : StartsWith(s, p) /\ s # p },
         MAX_PREFIX_MATCH_COUNT)

\* shorter first, then lexicographic
LengthLexLess(s, t) == Len(s) < Len(t) \/ (Len(s) = Len(t) /\ StrLess(s, t))

\* the sequence of a table line: what is before its first tab
LineSequence(line) ==
  SubSeq(line, 1, (CHOOSE i \in 1..Len(line) :
                     line[i] = TAB /\ \A h \in 1..(i - 1) : line[h] # TAB) - 1)

\* C8: whatever the orders in which the sets and the exact table are
\* iterated, each line written to a table is the one the two inputs
\* determine: the exact table has one line for each distinct sequence, in
\* lexicographic order, the prefix table its rows shorter prefix first and
\* then in lexicographic order, and every set of characters is written in
\* the order (rank, character).
C8_TablesAreFunctionsOfInputs ==
  /\ (pc = "exact" /\ exact_file.lines # << >>) =>
       exact_file.lines = SubSeq(ExactLinesOf(Expansions), 1,
                                 Len(exact_file.lines))
  /\ (pc = "prefix" /\ prefix_file.lines # << >>) =>
       prefix_file.lines[Len(prefix_file.lines)]
         = PrefixLineOf(prefix_sequence_list[Len(prefix_file.lines)],
                        Expansions)
  /\ pc = "done" =>
       /\ exact_file.lines = ExactLinesOf(Expansions)
       /\ \A k \in 1..(Len(prefix_file.lines) - 1) :
            LengthLexLess(LineSequence(prefix_file.lines[k]),
                          LineSequence(prefix_file.lines[k + 1]))

C8_Witness ==
  /\ pc = "done"
  /\ Len(exact_file.lines) = 2
  /\ exact_file.lines[1] = << 49, 49, TAB, 97, 98 >>
  /\ Keys(exact_characters_data_from_sequence) # sorted_sequences

\* the characters data of a table line: what is after its first tab
LineData(line) == Drop(line, Len(LineSequence(line)) + 2)

\* the line shows the character both before and after the comma
ShownTwice(line, character) ==
  \E i, j, k \in 1..Len(LineData(line)) :
    /\ i < j /\ j < k
    /\ LineData(line)[i] = character
    /\ LineData(line)[j] = COMMA
    /\ LineData(line)[k] = character

\* the entries of the exact table keep their place and lose no character
EntriesOnlyGrow ==
  \A i \in DOMAIN exact_characters_data_from_sequence :
    /\ i \in DOMAIN exact_characters_data_from_sequence'
    /\ exact_characters_data_from_sequence'[i].sequence
         = exact_characters_data_from_sequence[i].sequence
    /\ exact_characters_data_from_sequence[i].data.goodly_set
         \subseteq exact_characters_data_from_sequence'[i].data.goodly_set
    /\ exact_characters_data_from_sequence[i].data.abomination_set
         \subseteq exact_characters_data_from_sequence'[i].data.abomination_set

\* a character is in both sets of its key exactly when records of both kinds
\* give it to the key, and then the line of the key shows it twice
BothSetsShown ==
  /\ pc = "catalogue" =>
       \A i \in DOMAIN exact_characters_data_from_sequence :
         LET entry == exact_characters_data_from_sequence[i]
         IN  entry.data.goodly_set \cap entry.data.abomination_set
               = PreferredOf(entry.sequence, catalogue_index)
                   \cap DiscouragedOf(entry.sequence, catalogue_index)
  /\ (pc = "exact" /\ exact_file.lines # << >>) =>
       LET data == Lookup(exact_characters_data_from_sequence,
                          sorted_sequences[Len(exact_file.lines)])
       IN  \A c \in data.goodly_set \cap data.abomination_set :
             ShownTwice(exact_file.lines[Len(exact_file.lines)], c)
  /\ (pc = "prefix" /\ prefix_file.lines # << >>) =>
       LET dict == exact_characters_data_from_sequence
           p == prefix_sequence_list[Len(prefix_file.lines)]
       IN  \A c \in
             UNION { dict[i].data.goodly_set : i \in ExtensionsOf(p) } \cap
             UNION { dict[i].data.abomination_set : i \in ExtensionsOf(p) } :
               ShownTwice(prefix_file.lines[Len(prefix_file.lines)], c)

\* C10: a character given to a key both as preferred and as discouraged
\* stays in both sets: adding to one set never removes from the other, and
\* the line of the key, which nothing cuts, shows the character in both
\* portions, in the exact table as in the prefix table.
C10_BothSetsKeep == []BothSetsShown /\ [][EntriesOnlyGrow]_vars

C10_Witness ==
  /\ pc = "prefix"
  /\ \E k \in DOMAIN exact_file.lines : ShownTwice(exact_file.lines[k], 97)
  /\ prefix_file.lines # << >>
  /\ ShownTwice(prefix_file.lines[Len(prefix_file.lines)], 97)

====
